---- MODULE Spec2Model ----
(***************************************************************************)
(* The session state machine of the "real or AI" daily quiz front end.     *)
(*                                                                         *)
(* The repository holds several revisions of the App component.  Three    *)
(* are modelled here:                                                      *)
(*   - the forward-only revision (state unlockedRoundIndex, one Next /     *)
(*     Submit button), src/unnamed/part_000 lines 741-1117;                *)
(*   - the Back/Next revision (prev, next, separate Submit button),        *)
(*     src/src/App.tsx lines 1-348;                                        *)
(*   - the one-page revision (all rounds shown, state submitted),          *)
(*     src/src/App.tsx lines 350-564.                                      *)
(* The first two keep the same React state; the variables below are that   *)
(* state, the flag of the one-page revision, the user token in the         *)
(* component and in localStorage, the scores the server has stored, the    *)
(* requests in flight, and the operation that ran last.                    *)
(*                                                                         *)
(* A nullable value is a sequence of length 0 (null) or 1.  A JavaScript   *)
(* object keyed by numbers is a function whose domain holds the property   *)
(* keys String(n), as the engine stores them.                              *)
(***************************************************************************)
EXTENDS Integers, Sequences, FiniteSets, TLC

VARIABLES
    puzzle,               \* PuzzleResponse | null
    err,                  \* string | null
    answers,              \* Record<number, Choice>
    idx,                  \* position in puzzle.rounds, 0-based
    unlockedRoundIndex,   \* number | null
    submitting,           \* boolean
    attempt,              \* AttemptResponse | null
    leaderboard,          \* LeaderboardResponse | null
    loadingLeaderboard,   \* boolean
    loadsInFlight,        \* puzzle fetches awaiting their response
    inflight,             \* submitAttempt invocations suspended at an await
    lastOp,               \* the operation that produced this state
    submitted,            \* boolean (the one-page revision)
    userId,               \* the token this mount of App got from ensureUserId
    localStorage,         \* the item "real_or_ai_user_id" | null
    scorer                \* the server's stored score per puzzle date

vars == <<puzzle, err, answers, idx, unlockedRoundIndex, submitting, attempt,
          leaderboard, loadingLeaderboard, loadsInFlight, inflight, lastOp,
          submitted, userId, localStorage, scorer>>

\* The state the handlers of the Back/Next and forward-only revisions never
\* write.
others == <<submitted, userId, localStorage, scorer>>

-----------------------------------------------------------------------------
(* Bounds of the model.                                                    *)

MaxRounds == 3
MaxLoadsInFlight == 1
MaxInflight == 2

\* Round indices the server uses: 1..n, or 0, 2, 4, ... (unique, with gaps).
RoundIds == 0..(2 * MaxRounds)
Dates == {"2026-01-01", "2026-01-02"}
Choices == {"real", "ai"}

-----------------------------------------------------------------------------
(* Values.                                                                 *)

NULL == <<>>
Some(v) == <<v>>
Get(o) == o[1]

DigitChars == <<"0", "1", "2", "3", "4", "5", "6", "7", "8", "9">>

RECURSIVE ToStr(_)
ToStr(n) ==
    IF n < 10 THEN <<DigitChars[n + 1]>>
    ELSE ToStr(n \div 10) \o <<DigitChars[(n % 10) + 1]>>

PropKey(n) == ToStr(n)

EmptyObject == [k \in {} |-> "real"]

Has(obj, n) == PropKey(n) \in DOMAIN obj

Put(obj, n, v) ==
    [k \in DOMAIN obj \cup {PropKey(n)} |-> IF k = PropKey(n) THEN v ELSE obj[k]]

Round(n) == [roundIndex |-> n, imageUrl |-> <<"/img/">> \o ToStr(n)]

RECURSIVE InsertSorted(_, _)
InsertSorted(r, s) ==
    IF s = <<>> THEN <<r>>
    ELSE IF r.roundIndex - Head(s).roundIndex < 0 THEN <<r>> \o s
    ELSE <<Head(s)>> \o InsertSorted(r, Tail(s))

\* A slip: the rounds are kept in the order received.
SortRounds_asReceived(s) == s

RECURSIVE SortRounds(_)
SortRounds(s) ==
    IF s = <<>> THEN <<>>
    ELSE InsertSorted(s[Len(s)], SortRounds(SubSeq(s, 1, Len(s) - 1)))

Min(a, b) == IF a < b THEN a ELSE b
Max(a, b) == IF a > b THEN a ELSE b

-----------------------------------------------------------------------------
(* What the collaborators can answer.                                      *)

\* The puzzles the source serves: on the first date n rounds numbered 1..n,
\* on the second n rounds numbered 0, 2, .., 2(n-1); each in ascending
\* order, in descending order, or rotated by one.
Numbering(d, n) ==
    IF d = "2026-01-01" THEN [i \in 1..n |-> i] ELSE [i \in 1..n |-> 2 * (i - 1)]

Orders(n) ==
    {[i \in 1..n |-> i], [i \in 1..n |-> n + 1 - i], [i \in 1..n |-> (i % n) + 1]}

PuzzleBodies ==
    UNION {{[date |-> d, rounds |-> [i \in 1..n |-> Round(Numbering(d, n)[ord[i]])]]
            : d \in Dates, ord \in Orders(n)} : n \in 0..MaxRounds}

NotOkStatuses == {400}

LoadErrorBodies == {[error |-> "No puzzle"], [detail |-> "none"]}

ThrownMessages == {"Failed to fetch"}

AcceptedBodies ==
    {[ok |-> TRUE, alreadySubmitted |-> b, score |-> s]
     : b \in BOOLEAN, s \in {0, 1}}

OkAttemptBodies == AcceptedBodies \cup {[error |-> "Internal"]}

RejectedBodies ==
    {[error |-> "Incomplete", details |-> "missing rounds"],
     [error |-> "Bad request"],
     [detail |-> "none"]}

LeaderboardBodies ==
    {[leaderboard |-> <<[rank |-> 1, user |-> "u1", score |-> 1]>>]}

Op(name) == [op |-> name, round |-> 0 - 1, choice |-> ""]

\* The scorer before any attempt: no date has a stored score.
NoScores == [d \in {} |-> 0]

-----------------------------------------------------------------------------
(* Values derived on every render.                                         *)

rounds == IF puzzle = NULL THEN <<>> ELSE Get(puzzle).rounds

current == IF idx < Len(rounds) THEN Some(rounds[idx + 1]) ELSE NULL

isLast == idx = Len(rounds) - 1

currentRoundIndex == IF current = NULL THEN 0 ELSE Get(current).roundIndex

Accepted(a) == a # NULL /\ "ok" \in DOMAIN Get(a) /\ Get(a).ok

\* A slip: the lock forgets a submission in flight.
isCurrentLocked_noSubmitting ==
    \/ Accepted(attempt)
    \/ unlockedRoundIndex = NULL
    \/ Some(currentRoundIndex) # unlockedRoundIndex

isCurrentLocked ==
    \/ submitting
    \/ Accepted(attempt)
    \/ unlockedRoundIndex = NULL
    \/ Some(currentRoundIndex) # unlockedRoundIndex

Init ==
    /\ puzzle = NULL
    /\ err = NULL
    /\ answers = EmptyObject
    /\ idx = 0
    /\ unlockedRoundIndex = NULL
    /\ submitting = FALSE
    /\ attempt = NULL
    /\ leaderboard = NULL
    /\ loadingLeaderboard = FALSE
    /\ loadsInFlight = 0
    /\ inflight = {}
    /\ lastOp = Op("init")
    /\ submitted = FALSE
    /\ userId = Some("u1")
    /\ localStorage = Some("u1")
    /\ scorer = NoScores

-----------------------------------------------------------------------------
(* load: the effect of both revisions.  It runs on mount and again when    *)
(* its dependency changes; at most MaxLoadsInFlight fetches are            *)
(* outstanding at a time.                                                  *)

load ==
    /\ loadsInFlight < MaxLoadsInFlight
    /\ err' = NULL
    /\ attempt' = NULL
    /\ leaderboard' = NULL
    /\ loadsInFlight' = loadsInFlight + 1
    /\ lastOp' = Op("load")
    /\ UNCHANGED <<puzzle, answers, idx, unlockedRoundIndex, submitting,
                   loadingLeaderboard, inflight>>
    /\ UNCHANGED others

FirstRoundIndex(rs) == IF Len(rs) > 0 THEN rs[1].roundIndex ELSE 1

loadOk(json) ==
    /\ loadsInFlight > 0
    /\ LET sorted == [json EXCEPT !.rounds = SortRounds(json.rounds)]
       IN /\ puzzle' = Some(sorted)
          /\ answers' = EmptyObject
          /\ idx' = 0
          /\ unlockedRoundIndex' = Some(FirstRoundIndex(sorted.rounds))
    /\ loadsInFlight' = loadsInFlight - 1
    /\ lastOp' = Op("loadOk")
    /\ UNCHANGED <<err, submitting, attempt, leaderboard, loadingLeaderboard,
                   inflight>>
    /\ UNCHANGED others

loadNotOk(status, json) ==
    /\ loadsInFlight > 0
    /\ puzzle' = NULL
    /\ err' = IF "error" \in DOMAIN json
              THEN Some(<<json.error>>)
              ELSE Some(<<"Failed to load puzzle (">> \o ToStr(status) \o <<")">>)
    /\ loadsInFlight' = loadsInFlight - 1
    /\ lastOp' = Op("loadNotOk")
    /\ UNCHANGED <<answers, idx, unlockedRoundIndex, submitting, attempt,
                   leaderboard, loadingLeaderboard, inflight>>
    /\ UNCHANGED others

loadThrow(message) ==
    /\ loadsInFlight > 0
    /\ err' = Some(<<message>>)
    /\ loadsInFlight' = loadsInFlight - 1
    /\ lastOp' = Op("loadThrow")
    /\ UNCHANGED <<puzzle, answers, idx, unlockedRoundIndex, submitting,
                   attempt, leaderboard, loadingLeaderboard, inflight>>
    /\ UNCHANGED others

-----------------------------------------------------------------------------
(* The forward-only revision: setChoice, next, submitAttempt.              *)

\* A slip: the updater forgets to spread the previous ledger.
setChoice_noSpread(roundIndex, choice) ==
    answers' = IF isCurrentLocked THEN answers
               ELSE Put(EmptyObject, roundIndex, choice)

\* A slip: the choice is also written to the first round of the puzzle.
setChoice_alsoFirst(roundIndex, choice) ==
    answers' = IF isCurrentLocked THEN answers
               ELSE Put(Put(answers, rounds[1].roundIndex, choice),
                        roundIndex, choice)

setChoice(roundIndex, choice) ==
    answers' = IF isCurrentLocked THEN answers
               ELSE Put(answers, roundIndex, choice)

Lookup(obj, n) == IF Has(obj, n) THEN obj[PropKey(n)] ELSE "undefined"

Unanswered == {i \in 1..Len(rounds) : Lookup(answers, rounds[i].roundIndex) = "undefined"}

FirstUnanswered == rounds[CHOOSE i \in Unanswered : \A j \in Unanswered : i <= j]

\* A slip: the payload keyed by the position in the sequence.
FromEntries_byPosition ==
    [k \in {ToStr(i - 1) : i \in 1..Len(rounds)}
     |-> Lookup(answers,
                rounds[CHOOSE i \in 1..Len(rounds) : ToStr(i - 1) = k].roundIndex)]

\* Object.fromEntries(rounds.map(r => [String(r.roundIndex), answers[r.roundIndex]])):
\* one key per String(roundIndex), the last entry with that key wins.
FromEntries ==
    LET at(k) == {i \in 1..Len(rounds) : ToStr(rounds[i].roundIndex) = k}
        last(k) == CHOOSE i \in at(k) : \A j \in at(k) : j <= i
    IN [k \in {ToStr(rounds[i].roundIndex) : i \in 1..Len(rounds)}
        |-> Lookup(answers, rounds[last(k)].roundIndex)]

Payload == [puzzleDate |-> Get(puzzle).date, answers |-> FromEntries]

\* JSON.stringify leaves out the properties whose value is undefined.
Stringify(p) ==
    [p EXCEPT !.answers =
        [k \in {x \in DOMAIN p.answers : p.answers[x] # "undefined"}
         |-> p.answers[k]]]

\* The name the model gives a new invocation of submitAttempt.
FreeId == CHOOSE i \in 1..(Cardinality(inflight) + 1) :
              /\ \A c \in inflight : c.id # i
              /\ \A j \in 1..(i - 1) : \E c \in inflight : c.id = j

\* A slip: submitAttempt without its first line.  With no puzzle the loop
\* has nothing to refuse, and reading puzzle.date throws inside the try:
\* the catch reports it and the finally block clears submitting.
submitAttempt_noGuard(errNow) ==
    IF puzzle = NULL
    THEN /\ err' = Some(<<"Cannot read properties of null">>)
         /\ UNCHANGED <<submitting, attempt, inflight>>
    ELSE IF Unanswered # {}
    THEN /\ err' = Some(<<"Please answer Round ">>
                        \o ToStr(FirstUnanswered.roundIndex)
                        \o <<" before submitting.">>)
         /\ UNCHANGED <<submitting, attempt, inflight>>
    ELSE /\ err' = NULL
         /\ submitting' = TRUE
         /\ attempt' = NULL
         /\ inflight' = inflight \cup
                {[id |-> FreeId, awaiting |-> "attempt", xUserId |-> userId,
                  body |-> Stringify(Payload)]}

\* errNow is the value err has when submitAttempt is entered: next() has
\* already called setErr(null) on the path that reaches it.
submitAttempt(errNow) ==
    IF puzzle = NULL \/ current = NULL
    THEN /\ err' = errNow
         /\ UNCHANGED <<submitting, attempt, inflight>>
    ELSE IF Unanswered # {}
    THEN /\ err' = Some(<<"Please answer Round ">>
                        \o ToStr(FirstUnanswered.roundIndex)
                        \o <<" before submitting.">>)
         /\ UNCHANGED <<submitting, attempt, inflight>>
    ELSE /\ err' = NULL
         /\ submitting' = TRUE
         /\ attempt' = NULL
         /\ inflight' = inflight \cup
                {[id |-> FreeId, awaiting |-> "attempt", xUserId |-> userId,
                  body |-> Stringify(Payload)]}

\* A slip: next() advances without asking for an answer.
next_noValidation ==
    IF current = NULL
    THEN UNCHANGED <<err, idx, unlockedRoundIndex, submitting, attempt,
                     inflight>>
    ELSE IF ~isLast
    THEN /\ err' = NULL
         /\ unlockedRoundIndex' = Some(rounds[idx + 2].roundIndex)
         /\ idx' = Min(idx + 1, Len(rounds) - 1)
         /\ UNCHANGED <<submitting, attempt, inflight>>
    ELSE /\ submitAttempt(NULL)
         /\ UNCHANGED <<idx, unlockedRoundIndex>>

\* A slip: the next round's index taken to be the current one plus one.
next_plusOne ==
    IF current = NULL
    THEN UNCHANGED <<err, idx, unlockedRoundIndex, submitting, attempt,
                     inflight>>
    ELSE IF Lookup(answers, Get(current).roundIndex) = "undefined"
    THEN /\ err' = Some(<<"Choose Real or AI to continue.">>)
         /\ UNCHANGED <<idx, unlockedRoundIndex, submitting, attempt,
                        inflight>>
    ELSE IF ~isLast
    THEN /\ err' = NULL
         /\ unlockedRoundIndex' = Some(Get(current).roundIndex + 1)
         /\ idx' = Min(idx + 1, Len(rounds) - 1)
         /\ UNCHANGED <<submitting, attempt, inflight>>
    ELSE /\ submitAttempt(NULL)
         /\ UNCHANGED <<idx, unlockedRoundIndex>>

\* A slip: the last round is advanced past like any other.
next_pastEnd ==
    IF current = NULL
    THEN UNCHANGED <<err, idx, unlockedRoundIndex, submitting, attempt,
                     inflight>>
    ELSE IF Lookup(answers, Get(current).roundIndex) = "undefined"
    THEN /\ err' = Some(<<"Choose Real or AI to continue.">>)
         /\ UNCHANGED <<idx, unlockedRoundIndex, submitting, attempt,
                        inflight>>
    ELSE /\ err' = NULL
         /\ unlockedRoundIndex' =
                IF isLast THEN unlockedRoundIndex
                ELSE Some(rounds[idx + 2].roundIndex)
         /\ idx' = idx + 1
         /\ UNCHANGED <<submitting, attempt, inflight>>

next ==
    IF current = NULL
    THEN UNCHANGED <<err, idx, unlockedRoundIndex, submitting, attempt,
                     inflight>>
    ELSE IF Lookup(answers, Get(current).roundIndex) = "undefined"
    THEN /\ err' = Some(<<"Choose Real or AI to continue.">>)
         /\ UNCHANGED <<idx, unlockedRoundIndex, submitting, attempt, inflight>>
    ELSE IF ~isLast
    THEN /\ err' = NULL
         /\ unlockedRoundIndex' = Some(rounds[idx + 2].roundIndex)
         /\ idx' = Min(idx + 1, Len(rounds) - 1)
         /\ UNCHANGED <<submitting, attempt, inflight>>
    ELSE /\ submitAttempt(NULL)
         /\ UNCHANGED <<idx, unlockedRoundIndex>>

\* The rest of submitAttempt, one action per way an await can resume.
\* c is the suspended invocation.

\* A slip: a repeated submission is reported as an error.
attemptOk_flagsResubmission(c, json) ==
    /\ c \in inflight /\ c.awaiting = "attempt"
    /\ attempt' = Some(json)
    /\ err' = IF "alreadySubmitted" \in DOMAIN json /\ json.alreadySubmitted
              THEN Some(<<"Already submitted">>)
              ELSE err
    /\ loadingLeaderboard' = TRUE
    /\ inflight' = (inflight \ {c}) \cup {[c EXCEPT !.awaiting = "leaderboard"]}
    /\ lastOp' = Op("attemptOk")
    /\ UNCHANGED <<puzzle, answers, idx, unlockedRoundIndex, submitting,
                   leaderboard, loadsInFlight>>
    /\ UNCHANGED others

attemptOk(c, json) ==
    /\ c \in inflight /\ c.awaiting = "attempt"
    /\ attempt' = Some(json)
    /\ loadingLeaderboard' = TRUE
    /\ inflight' = (inflight \ {c}) \cup {[c EXCEPT !.awaiting = "leaderboard"]}
    /\ lastOp' = Op("attemptOk")
    /\ UNCHANGED <<puzzle, err, answers, idx, unlockedRoundIndex, submitting,
                   leaderboard, loadsInFlight>>
    /\ UNCHANGED others

\* A slip: the leaderboard is fetched after a refused attempt too.
attemptNotOk_fetchesLeaderboard(c, status, json) ==
    /\ c \in inflight /\ c.awaiting = "attempt"
    /\ attempt' = NULL
    /\ err' = Some(<<"Submit failed (">> \o ToStr(status) \o <<")">>)
    /\ loadingLeaderboard' = TRUE
    /\ inflight' = (inflight \ {c}) \cup {[c EXCEPT !.awaiting = "leaderboard"]}
    /\ lastOp' = Op("attemptNotOk")
    /\ UNCHANGED <<puzzle, answers, idx, unlockedRoundIndex, submitting,
                   leaderboard, loadsInFlight>>
    /\ UNCHANGED others

\* A slip: a refused attempt sets no error message.
attemptNotOk_silent(c, status, json) ==
    /\ c \in inflight /\ c.awaiting = "attempt"
    /\ attempt' = NULL
    /\ submitting' = FALSE
    /\ inflight' = inflight \ {c}
    /\ lastOp' = Op("attemptNotOk")
    /\ UNCHANGED <<puzzle, err, answers, idx, unlockedRoundIndex, leaderboard,
                   loadingLeaderboard, loadsInFlight>>
    /\ UNCHANGED others

\* A slip: setSubmitting(false) at the end of the try block instead of in
\* finally, so that the early return skips it.
attemptNotOk_noFinally(c, status, json) ==
    /\ c \in inflight /\ c.awaiting = "attempt"
    /\ attempt' = NULL
    /\ err' = IF "error" \in DOMAIN json
              THEN IF "details" \in DOMAIN json
                   THEN Some(<<json.error, ": ", json.details>>)
                   ELSE Some(<<json.error>>)
              ELSE Some(<<"Submit failed (">> \o ToStr(status) \o <<")">>)
    /\ inflight' = inflight \ {c}
    /\ lastOp' = Op("attemptNotOk")
    /\ UNCHANGED <<puzzle, answers, idx, unlockedRoundIndex, submitting,
                   leaderboard, loadingLeaderboard, loadsInFlight>>
    /\ UNCHANGED others

attemptNotOk(c, status, json) ==
    /\ c \in inflight /\ c.awaiting = "attempt"
    /\ attempt' = NULL
    /\ err' = IF "error" \in DOMAIN json
              THEN IF "details" \in DOMAIN json
                   THEN Some(<<json.error, ": ", json.details>>)
                   ELSE Some(<<json.error>>)
              ELSE Some(<<"Submit failed (">> \o ToStr(status) \o <<")">>)
    /\ submitting' = FALSE
    /\ inflight' = inflight \ {c}
    /\ lastOp' = Op("attemptNotOk")
    /\ UNCHANGED <<puzzle, answers, idx, unlockedRoundIndex, leaderboard,
                   loadingLeaderboard, loadsInFlight>>
    /\ UNCHANGED others

\* A slip: a failed request is sent again.
attemptThrow_retries(c, message) ==
    /\ c \in inflight /\ c.awaiting = "attempt"
    /\ err' = Some(<<message>>)
    /\ inflight' = (inflight \ {c}) \cup {[c EXCEPT !.id = 3 - c.id]}
    /\ lastOp' = Op("attemptThrow")
    /\ UNCHANGED <<puzzle, answers, idx, unlockedRoundIndex, submitting,
                   attempt, leaderboard, loadingLeaderboard, loadsInFlight>>
    /\ UNCHANGED others

attemptThrow(c, message) ==
    /\ c \in inflight /\ c.awaiting = "attempt"
    /\ err' = Some(<<message>>)
    /\ attempt' = NULL
    /\ loadingLeaderboard' = FALSE
    /\ submitting' = FALSE
    /\ inflight' = inflight \ {c}
    /\ lastOp' = Op("attemptThrow")
    /\ UNCHANGED <<puzzle, answers, idx, unlockedRoundIndex, leaderboard,
                   loadsInFlight>>
    /\ UNCHANGED others

leaderboardOk(c, lbJson) ==
    /\ c \in inflight /\ c.awaiting = "leaderboard"
    /\ leaderboard' = Some(lbJson)
    /\ loadingLeaderboard' = FALSE
    /\ submitting' = FALSE
    /\ inflight' = inflight \ {c}
    /\ lastOp' = Op("leaderboardOk")
    /\ UNCHANGED <<puzzle, err, answers, idx, unlockedRoundIndex, attempt,
                   loadsInFlight>>
    /\ UNCHANGED others

leaderboardNotOk(c) ==
    /\ c \in inflight /\ c.awaiting = "leaderboard"
    /\ loadingLeaderboard' = FALSE
    /\ submitting' = FALSE
    /\ inflight' = inflight \ {c}
    /\ lastOp' = Op("leaderboardNotOk")
    /\ UNCHANGED <<puzzle, err, answers, idx, unlockedRoundIndex, attempt,
                   leaderboard, loadsInFlight>>
    /\ UNCHANGED others

leaderboardThrow(c, message) ==
    /\ c \in inflight /\ c.awaiting = "leaderboard"
    /\ err' = Some(<<message>>)
    /\ attempt' = NULL
    /\ loadingLeaderboard' = FALSE
    /\ submitting' = FALSE
    /\ inflight' = inflight \ {c}
    /\ lastOp' = Op("leaderboardThrow")
    /\ UNCHANGED <<puzzle, answers, idx, unlockedRoundIndex, leaderboard,
                   loadsInFlight>>
    /\ UNCHANGED others

-----------------------------------------------------------------------------
(* The forward-only revision as the user drives it: a button that is       *)
(* disabled takes no click.                                                *)

choiceDisabled == current = NULL \/ isCurrentLocked

\* A slip: the button stays enabled while a submission is in flight.
nextDisabled_noSubmitting == current = NULL \/ Accepted(attempt)

nextDisabled == current = NULL \/ submitting \/ Accepted(attempt)

ClickChoice(choice) ==
    /\ ~choiceDisabled
    /\ current # NULL /\ setChoice(Get(current).roundIndex, choice)
    /\ lastOp' = [op |-> "setChoice", round |-> Get(current).roundIndex,
                  choice |-> choice]
    /\ UNCHANGED <<puzzle, err, idx, unlockedRoundIndex, submitting, attempt,
                   leaderboard, loadingLeaderboard, loadsInFlight, inflight>>
    /\ UNCHANGED others

ClickNext ==
    /\ ~nextDisabled
    /\ next
    /\ lastOp' = Op("next")
    /\ UNCHANGED <<puzzle, answers, leaderboard, loadingLeaderboard,
                   loadsInFlight>>
    /\ UNCHANGED others

Load == load

\* The effect runs load once, on mount.
LoadOnMount == lastOp.op = "init" /\ load

LoadResponse ==
    \/ \E json \in PuzzleBodies : loadOk(json)
    \/ \E status \in NotOkStatuses, json \in LoadErrorBodies : loadNotOk(status, json)
    \/ \E message \in ThrownMessages : loadThrow(message)

AttemptResponse ==
    \E c \in inflight :
        \/ \E json \in OkAttemptBodies : attemptOk(c, json)
        \/ \E status \in NotOkStatuses, json \in RejectedBodies :
              attemptNotOk(c, status, json)
        \/ \E message \in ThrownMessages : attemptThrow(c, message)

LeaderboardResponse ==
    \E c \in inflight :
        \/ \E lbJson \in LeaderboardBodies : leaderboardOk(c, lbJson)
        \/ leaderboardNotOk(c)
        \/ \E message \in ThrownMessages : leaderboardThrow(c, message)

NextForward ==
    \/ Load
    \/ LoadResponse
    \/ \E choice \in Choices : ClickChoice(choice)
    \/ ClickNext
    \/ AttemptResponse
    \/ LeaderboardResponse

SpecForward == Init /\ [][NextForward]_vars

\* Every request that is outstanding is eventually answered or fails: the
\* awaited fetch of submitAttempt settles.
SpecForwardFair ==
    SpecForward /\ WF_vars(AttemptResponse) /\ WF_vars(LeaderboardResponse)

-----------------------------------------------------------------------------
(* The forward-only revision with setChoice called directly, for any       *)
(* loaded round and whatever the choice buttons show.                      *)

\* The forward-only revision with two next() calls that run against one
\* rendered snapshot: both closures read the same idx, answers, rounds and
\* current; the updates they queue are applied in order afterwards.  A value
\* given to a setter is computed from the snapshot, an updater function
\* (setIdx) is applied to the value the previous update left.

\* The name of the second invocation of submitAttempt started in one step.
FreeId2 == CHOOSE i \in 1..(Cardinality(inflight) + 2) :
               /\ i > FreeId
               /\ \A c \in inflight : c.id # i
               /\ \A j \in (FreeId + 1)..(i - 1) : \E c \in inflight : c.id = j

submitAttemptTwice ==
    IF puzzle = NULL \/ current = NULL
    THEN /\ err' = NULL
         /\ UNCHANGED <<submitting, attempt, inflight>>
    ELSE IF Unanswered # {}
    THEN /\ err' = Some(<<"Please answer Round ">>
                        \o ToStr(FirstUnanswered.roundIndex)
                        \o <<" before submitting.">>)
         /\ UNCHANGED <<submitting, attempt, inflight>>
    ELSE /\ err' = NULL
         /\ submitting' = TRUE
         /\ attempt' = NULL
         /\ inflight' = inflight \cup
                {[id |-> i, awaiting |-> "attempt", xUserId |-> userId,
                  body |-> Stringify(Payload)] : i \in {FreeId, FreeId2}}

nextTwice ==
    IF current = NULL
    THEN UNCHANGED <<err, idx, unlockedRoundIndex, submitting, attempt,
                     inflight>>
    ELSE IF Lookup(answers, Get(current).roundIndex) = "undefined"
    THEN /\ err' = Some(<<"Choose Real or AI to continue.">>)
         /\ UNCHANGED <<idx, unlockedRoundIndex, submitting, attempt, inflight>>
    ELSE IF ~isLast
    THEN /\ err' = NULL
         /\ unlockedRoundIndex' = Some(rounds[idx + 2].roundIndex)
         /\ idx' = Min(Min(idx + 1, Len(rounds) - 1) + 1, Len(rounds) - 1)
         /\ UNCHANGED <<submitting, attempt, inflight>>
    ELSE /\ submitAttemptTwice
         /\ UNCHANGED <<idx, unlockedRoundIndex>>

\* Two clicks on the Next button of one render.
ClickNextTwice ==
    /\ ~nextDisabled
    /\ Cardinality(inflight) + 2 <= MaxInflight
    /\ nextTwice
    /\ lastOp' = Op("nextTwice")
    /\ UNCHANGED <<puzzle, answers, leaderboard, loadingLeaderboard,
                   loadsInFlight>>
    /\ UNCHANGED others

NextSnapshot ==
    \/ LoadOnMount
    \/ LoadResponse
    \/ \E choice \in Choices : ClickChoice(choice)
    \/ ClickNext
    \/ ClickNextTwice
    \/ AttemptResponse
    \/ LeaderboardResponse

SpecSnapshot == Init /\ [][NextSnapshot]_vars

-----------------------------------------------------------------------------
LoadedRoundIndices == {rounds[i].roundIndex : i \in 1..Len(rounds)}

CallSetChoice(roundIndex, choice) ==
    /\ setChoice(roundIndex, choice)
    /\ lastOp' = [op |-> "setChoice", round |-> roundIndex, choice |-> choice]
    /\ UNCHANGED <<puzzle, err, idx, unlockedRoundIndex, submitting, attempt,
                   leaderboard, loadingLeaderboard, loadsInFlight, inflight>>
    /\ UNCHANGED others

NextCalls ==
    \/ Load
    \/ LoadResponse
    \/ \E roundIndex \in LoadedRoundIndices, choice \in Choices :
          CallSetChoice(roundIndex, choice)
    \/ ClickNext
    \/ AttemptResponse
    \/ LeaderboardResponse

SpecCalls == Init /\ [][NextCalls]_vars

-----------------------------------------------------------------------------
(* The forward-only revision with next and submitAttempt called directly,  *)
(* whatever the Next/Submit button shows, at any moment at which no        *)
(* submission is in flight.                                                *)

CallNext ==
    /\ ~submitting
    /\ next
    /\ lastOp' = Op("next")
    /\ UNCHANGED <<puzzle, answers, leaderboard, loadingLeaderboard,
                   loadsInFlight>>
    /\ UNCHANGED others

CallSubmitAttempt ==
    /\ ~submitting
    /\ submitAttempt(err)
    /\ lastOp' = Op("submitAttempt")
    /\ UNCHANGED <<puzzle, answers, idx, unlockedRoundIndex, leaderboard,
                   loadingLeaderboard, loadsInFlight>>
    /\ UNCHANGED others

NextHandlers ==
    \/ Load
    \/ LoadResponse
    \/ \E choice \in Choices : ClickChoice(choice)
    \/ CallNext
    \/ CallSubmitAttempt
    \/ AttemptResponse
    \/ LeaderboardResponse

SpecHandlers == Init /\ [][NextHandlers]_vars

-----------------------------------------------------------------------------
(* The Back/Next revision (src/src/App.tsx): no unlockedRoundIndex; the    *)
(* effect load, and submitAttempt after its first await, read as in the    *)
(* forward-only revision.                                                  *)

loadOkNav(json) ==
    /\ loadsInFlight > 0
    /\ puzzle' = Some([json EXCEPT !.rounds = SortRounds(json.rounds)])
    /\ answers' = EmptyObject
    /\ idx' = 0
    /\ loadsInFlight' = loadsInFlight - 1
    /\ lastOp' = Op("loadOk")
    /\ UNCHANGED <<err, unlockedRoundIndex, submitting, attempt, leaderboard,
                   loadingLeaderboard, inflight>>
    /\ UNCHANGED others

setChoiceNav(roundIndex, choice) ==
    answers' = Put(answers, roundIndex, choice)

\* A slip: the floor taken to be the first round's number.
prev_floorOne ==
    /\ err' = NULL
    /\ idx' = Max(idx - 1, 1)

prev ==
    /\ err' = NULL
    /\ idx' = Max(idx - 1, 0)

nextNav ==
    IF current = NULL
    THEN UNCHANGED <<err, idx>>
    ELSE IF Lookup(answers, Get(current).roundIndex) = "undefined"
    THEN /\ err' = Some(<<"Choose Real or AI to continue.">>)
         /\ UNCHANGED idx
    ELSE /\ err' = NULL
         /\ idx' = Min(idx + 1, Len(rounds) - 1)

\* A slip: the completeness loop is missing.
submitAttemptNav_noValidation ==
    IF puzzle = NULL \/ current = NULL
    THEN UNCHANGED <<err, submitting, attempt, inflight>>
    ELSE /\ err' = NULL
         /\ submitting' = TRUE
         /\ attempt' = NULL
         /\ inflight' = inflight \cup
                {[id |-> FreeId, awaiting |-> "attempt", xUserId |-> userId,
                  body |-> Stringify(Payload)]}

submitAttemptNav ==
    IF puzzle = NULL \/ current = NULL
    THEN UNCHANGED <<err, submitting, attempt, inflight>>
    ELSE IF Unanswered # {}
    THEN /\ err' = Some(<<"Please answer Round ">>
                        \o ToStr(FirstUnanswered.roundIndex)
                        \o <<" before submitting.">>)
         /\ UNCHANGED <<submitting, attempt, inflight>>
    ELSE /\ err' = NULL
         /\ submitting' = TRUE
         /\ attempt' = NULL
         /\ inflight' = inflight \cup
                {[id |-> FreeId, awaiting |-> "attempt", xUserId |-> userId,
                  body |-> Stringify(Payload)]}

backDisabled == idx = 0 \/ submitting

ClickChoiceNav(choice) ==
    /\ current # NULL /\ setChoiceNav(Get(current).roundIndex, choice)
    /\ lastOp' = [op |-> "setChoice", round |-> Get(current).roundIndex,
                  choice |-> choice]
    /\ UNCHANGED <<puzzle, err, idx, unlockedRoundIndex, submitting, attempt,
                   leaderboard, loadingLeaderboard, loadsInFlight, inflight>>
    /\ UNCHANGED others

ClickBack ==
    /\ ~backDisabled
    /\ prev
    /\ lastOp' = Op("prev")
    /\ UNCHANGED <<puzzle, answers, unlockedRoundIndex, submitting, attempt,
                   leaderboard, loadingLeaderboard, loadsInFlight, inflight>>
    /\ UNCHANGED others

ClickNextNav ==
    /\ ~isLast /\ ~submitting
    /\ nextNav
    /\ lastOp' = Op("next")
    /\ UNCHANGED <<puzzle, answers, unlockedRoundIndex, submitting, attempt,
                   leaderboard, loadingLeaderboard, loadsInFlight, inflight>>
    /\ UNCHANGED others

ClickSubmit ==
    /\ isLast /\ ~submitting
    /\ submitAttemptNav
    /\ lastOp' = Op("submitAttempt")
    /\ UNCHANGED <<puzzle, answers, idx, unlockedRoundIndex, leaderboard,
                   loadingLeaderboard, loadsInFlight>>
    /\ UNCHANGED others

LoadResponseNav ==
    \/ \E json \in PuzzleBodies : loadOkNav(json)
    \/ \E status \in NotOkStatuses, json \in LoadErrorBodies : loadNotOk(status, json)
    \/ \E message \in ThrownMessages : loadThrow(message)

NextNav ==
    \/ Load
    \/ LoadResponseNav
    \/ \E choice \in Choices : ClickChoiceNav(choice)
    \/ ClickBack
    \/ ClickNextNav
    \/ ClickSubmit
    \/ AttemptResponse
    \/ LeaderboardResponse

SpecNav == Init /\ [][NextNav]_vars

-----------------------------------------------------------------------------
(* The Back/Next revision with prev called directly, whatever the Back     *)
(* button shows, at any moment at which no submission is in flight.        *)

CallPrev ==
    /\ ~submitting
    /\ prev
    /\ lastOp' = Op("prev")
    /\ UNCHANGED <<puzzle, answers, unlockedRoundIndex, submitting, attempt,
                   leaderboard, loadingLeaderboard, loadsInFlight, inflight>>
    /\ UNCHANGED others

NextNavCalls ==
    \/ NextNav
    \/ CallPrev

SpecNavCalls == Init /\ [][NextNavCalls]_vars

-----------------------------------------------------------------------------
(* The Back/Next revision against a scorer that is idempotent per user and *)
(* puzzle date.  The user is the one token of this mount, so the scorer    *)
(* keeps one score per date: the first attempt for a date is scored and    *)
(* stored, every later one is answered with the stored score and           *)
(* alreadySubmitted.  The puzzle is loaded once, by the effect on mount.   *)

Scores == {0, 1}

Handled(c) == "response" \in DOMAIN c

ScorerResponse(c, score) ==
    IF c.body.puzzleDate \in DOMAIN scorer
    THEN [ok |-> TRUE, alreadySubmitted |-> TRUE,
          score |-> scorer[c.body.puzzleDate]]
    ELSE [ok |-> TRUE, alreadySubmitted |-> FALSE, score |-> score]

\* The scorer takes the attempt request c and prepares its response.
scorerHandles(c, score) ==
    /\ c \in inflight /\ c.awaiting = "attempt" /\ ~Handled(c)
    /\ scorer' = [d \in DOMAIN scorer \cup {c.body.puzzleDate} |->
                    IF d \in DOMAIN scorer THEN scorer[d] ELSE score]
    /\ inflight' = (inflight \ {c}) \cup
                      {[id |-> c.id, awaiting |-> c.awaiting, xUserId |-> c.xUserId,
                        body |-> c.body,
                        response |-> ScorerResponse(c, score)]}
    /\ lastOp' = Op("scorerHandles")
    /\ UNCHANGED <<puzzle, err, answers, idx, unlockedRoundIndex, submitting,
                   attempt, leaderboard, loadingLeaderboard, loadsInFlight,
                   submitted, userId, localStorage>>

ScorerHandles ==
    \E c \in inflight, score \in Scores : scorerHandles(c, score)

ScorerResponds ==
    \E c \in inflight : Handled(c) /\ attemptOk(c, c.response)

NextScorer ==
    \/ LoadOnMount
    \/ LoadResponseNav
    \/ \E choice \in Choices : ClickChoiceNav(choice)
    \/ ClickBack
    \/ ClickNextNav
    \/ ClickSubmit
    \/ ScorerHandles
    \/ ScorerResponds
    \/ LeaderboardResponse

SpecScorer == Init /\ [][NextScorer]_vars

-----------------------------------------------------------------------------
(* The user token across sessions of the forward-only revision.  A session *)
(* starts when the page is opened: the component mounts with its initial   *)
(* state and useMemo calls ensureUserId once.  localStorage outlives the   *)
(* sessions; the requests of a closed page are never answered to the new   *)
(* one.                                                                    *)

\* The tokens crypto.randomUUID() may return.
Tokens == {"u1", "u2"}

\* A slip: a token is generated and stored on every call.
ensureUserId_overwrites(storage, fresh) ==
    [id |-> fresh, localStorage |-> Some(fresh)]

\* `if (existing) return existing;`: null and the empty string are falsy.
ensureUserId(storage, fresh) ==
    IF storage # NULL /\ Get(storage) # ""
    THEN [id |-> Get(storage), localStorage |-> storage]
    ELSE [id |-> fresh, localStorage |-> Some(fresh)]

Mounted == userId # NULL

Mount(fresh) ==
    /\ puzzle' = NULL
    /\ err' = NULL
    /\ answers' = EmptyObject
    /\ idx' = 0
    /\ unlockedRoundIndex' = NULL
    /\ submitting' = FALSE
    /\ attempt' = NULL
    /\ leaderboard' = NULL
    /\ loadingLeaderboard' = FALSE
    /\ loadsInFlight' = 0
    /\ inflight' = {}
    /\ userId' = Some(ensureUserId(localStorage, fresh).id)
    /\ localStorage' = ensureUserId(localStorage, fresh).localStorage
    /\ lastOp' = Op(IF localStorage' = localStorage THEN "mountExisting"
                                                    ELSE "mountCreated")
    /\ UNCHANGED <<submitted, scorer>>

InitUser ==
    /\ puzzle = NULL
    /\ err = NULL
    /\ answers = EmptyObject
    /\ idx = 0
    /\ unlockedRoundIndex = NULL
    /\ submitting = FALSE
    /\ attempt = NULL
    /\ leaderboard = NULL
    /\ loadingLeaderboard = FALSE
    /\ loadsInFlight = 0
    /\ inflight = {}
    /\ lastOp = Op("init")
    /\ submitted = FALSE
    /\ userId = NULL
    /\ localStorage = NULL
    /\ scorer = NoScores

NextUser ==
    \/ \E fresh \in Tokens : Mount(fresh)
    \/ Mounted /\ Load
    \/ Mounted /\ LoadResponse
    \/ Mounted /\ \E choice \in Choices : ClickChoice(choice)
    \/ Mounted /\ ClickNext
    \/ Mounted /\ AttemptResponse
    \/ Mounted /\ LeaderboardResponse

SpecUser == InitUser /\ [][NextUser]_vars

-----------------------------------------------------------------------------
(* The one-page revision, src/src/App.tsx lines 350-564: every round of    *)
(* the puzzle is on the page with its two choice buttons, and one Submit   *)
(* button sets submitted.  Its state is puzzle, err, answers, submitted;   *)
(* the rounds are kept in the order received.                              *)

session == <<idx, unlockedRoundIndex, submitting, attempt, leaderboard,
             loadingLeaderboard, inflight, userId, localStorage, scorer>>

totalRounds == IF puzzle = NULL THEN 0 ELSE Len(Get(puzzle).rounds)

answeredCount == Cardinality(DOMAIN answers)

loadPage ==
    /\ loadsInFlight < MaxLoadsInFlight
    /\ err' = NULL
    /\ loadsInFlight' = loadsInFlight + 1
    /\ lastOp' = Op("load")
    /\ UNCHANGED <<puzzle, answers, submitted>>
    /\ UNCHANGED session

\* A slip: the ledger of the previous puzzle is kept.
loadOkPage_keepsAnswers(json) ==
    /\ loadsInFlight > 0
    /\ puzzle' = Some(json)
    /\ submitted' = FALSE
    /\ loadsInFlight' = loadsInFlight - 1
    /\ lastOp' = Op("loadOk")
    /\ UNCHANGED <<err, answers>>
    /\ UNCHANGED session

loadOkPage(json) ==
    /\ loadsInFlight > 0
    /\ puzzle' = Some(json)
    /\ answers' = EmptyObject
    /\ submitted' = FALSE
    /\ loadsInFlight' = loadsInFlight - 1
    /\ lastOp' = Op("loadOk")
    /\ UNCHANGED err
    /\ UNCHANGED session

loadNotOkPage(status, json) ==
    /\ loadsInFlight > 0
    /\ puzzle' = NULL
    /\ err' = IF "error" \in DOMAIN json
              THEN Some(<<json.error>>)
              ELSE Some(<<"Failed to load puzzle (">> \o ToStr(status) \o <<")">>)
    /\ loadsInFlight' = loadsInFlight - 1
    /\ lastOp' = Op("loadNotOk")
    /\ UNCHANGED <<answers, submitted>>
    /\ UNCHANGED session

loadThrowPage(message) ==
    /\ loadsInFlight > 0
    /\ err' = Some(<<message>>)
    /\ loadsInFlight' = loadsInFlight - 1
    /\ lastOp' = Op("loadThrow")
    /\ UNCHANGED <<puzzle, answers, submitted>>
    /\ UNCHANGED session

setChoicePage(roundIndex, choice) ==
    answers' = Put(answers, roundIndex, choice)

onSubmit ==
    IF puzzle = NULL
    THEN UNCHANGED <<err, submitted>>
    ELSE IF answeredCount # totalRounds
    THEN /\ err' = Some(<<"Please answer all rounds (">> \o ToStr(answeredCount)
                        \o <<"/">> \o ToStr(totalRounds) \o <<").">>)
         /\ UNCHANGED submitted
    ELSE /\ err' = NULL
         /\ submitted' = TRUE

submitDisabled == puzzle = NULL \/ submitted

\* The choice buttons are rendered for each round of a loaded puzzle and are
\* never disabled.
ClickChoicePage(i, choice) ==
    /\ puzzle # NULL
    /\ i \in 1..Len(rounds)
    /\ setChoicePage(rounds[i].roundIndex, choice)
    /\ lastOp' = [op |-> "setChoice", round |-> rounds[i].roundIndex,
                  choice |-> choice]
    /\ UNCHANGED <<puzzle, err, submitted, loadsInFlight>>
    /\ UNCHANGED session

ClickSubmitPage ==
    /\ ~submitDisabled
    /\ onSubmit
    /\ lastOp' = Op("onSubmit")
    /\ UNCHANGED <<puzzle, answers, loadsInFlight>>
    /\ UNCHANGED session

LoadPage == loadPage

LoadResponsePage ==
    \/ \E json \in PuzzleBodies : loadOkPage(json)
    \/ \E status \in NotOkStatuses, json \in LoadErrorBodies :
          loadNotOkPage(status, json)
    \/ \E message \in ThrownMessages : loadThrowPage(message)

NextPage ==
    \/ LoadPage
    \/ LoadResponsePage
    \/ \E i \in 1..MaxRounds, choice \in Choices : ClickChoicePage(i, choice)
    \/ ClickSubmitPage

SpecPage == Init /\ [][NextPage]_vars

-----------------------------------------------------------------------------
(* The claims.                                                             *)

LoadOps == {"load", "loadOk", "loadNotOk", "loadThrow"}

\* The rounds next() has advanced past: the positions before idx.
Passed == {i \in 1..Len(rounds) : i <= idx}

\* C1: forward-only lock.  In the forward-only revision, a round that next()
\* has advanced past no longer has the index unlockedRoundIndex, and no step
\* of setChoice, next or submitAttempt (any step that is not a load's)
\* changes its entry in the answers ledger.
C1_ForwardOnlyLock ==
    [][\A i \in Passed :
          /\ Some(rounds[i].roundIndex) # unlockedRoundIndex
          /\ lastOp'.op \notin LoadOps =>
                Lookup(answers', rounds[i].roundIndex)
                    = Lookup(answers, rounds[i].roundIndex)]_vars

\* A choice was made on the second round after the first was answered and
\* advanced past.
C1_Witness ==
    /\ idx >= 1
    /\ lastOp.op = "setChoice"
    /\ lastOp.round = currentRoundIndex
    /\ Lookup(answers, rounds[1].roundIndex) # "undefined"
    /\ Lookup(answers, currentRoundIndex) = lastOp.choice

\* The editability predicate of the spec, from the state alone.
Editable ==
    /\ current # NULL
    /\ unlockedRoundIndex = Some(Get(current).roundIndex)
    /\ ~submitting
    /\ ~(attempt # NULL /\ "ok" \in DOMAIN attempt[1] /\ attempt[1].ok)

\* C3: editability predicate.  setChoice on the displayed round writes the
\* choice into the ledger iff the round's index equals unlockedRoundIndex, no
\* submission is in flight and no Accepted result is held; in every other
\* state it leaves the ledger unchanged.
C3_EditabilityPredicate ==
    [][(/\ lastOp'.op = "setChoice"
        /\ current # NULL
        /\ lastOp'.round = Get(current).roundIndex)
       => answers' = IF Editable
                     THEN Put(answers, lastOp'.round, lastOp'.choice)
                     ELSE answers]_vars

\* setChoice was called on the displayed round while a submission was in
\* flight, and the ledger does not hold the choice it was called with.
C3_Witness ==
    /\ lastOp.op = "setChoice"
    /\ current # NULL
    /\ lastOp.round = Get(current).roundIndex
    /\ submitting
    /\ Lookup(answers, lastOp.round) # lastOp.choice

\* C2: Back is review-only.  In the Back/Next revision, a setChoice that
\* follows prev() (the view is on a round already answered and advanced
\* past) does not change the ledger.
C2_BackIsReviewOnly ==
    [][(lastOp.op = "prev" /\ lastOp'.op = "setChoice") => answers' = answers]_vars

\* The displayed round has no ledger entry.
CurrentUnanswered ==
    current # NULL /\ Lookup(answers, Get(current).roundIndex) = "undefined"

\* An attempt request or leaderboard fetch that was not outstanding before
\* the step.
Sent == {c \in inflight' : \A b \in inflight : b.id # c.id \/ b.awaiting # c.awaiting}

\* C4: next() on a displayed round that has no ledger entry changes neither
\* idx nor unlockedRoundIndex, sets a validation error message and sends no
\* network request.
C4_NextUnanswered ==
    [][(lastOp'.op = "next" /\ CurrentUnanswered)
       => /\ idx' = idx
          /\ unlockedRoundIndex' = unlockedRoundIndex
          /\ err' = Some(<<"Choose Real or AI to continue.">>)
          /\ Sent = {}
          /\ loadsInFlight' = loadsInFlight]_vars

\* next() ran on a displayed round with no entry and left the error set.
C4_Witness ==
    /\ lastOp.op = "next"
    /\ CurrentUnanswered
    /\ err = Some(<<"Choose Real or AI to continue.">>)
    /\ idx = 1

\* C5: before an Accepted result, unlockedRoundIndex equals the roundIndex of
\* the round at position idx, in every state of a session (a puzzle is
\* loaded).
C5_UnlockedIsCurrent ==
    (puzzle # NULL /\ ~Accepted(attempt))
        => /\ current # NULL
           /\ unlockedRoundIndex = Some(Get(current).roundIndex)

\* C6: a next() on an answered round that is not the last sets
\* unlockedRoundIndex to the roundIndex of the round that follows in the
\* sorted sequence and adds exactly one to idx; any other next() (no round,
\* no answer, last round) leaves both alone.
C6_NextAdvancesByOne ==
    [][lastOp'.op = "next"
       => IF current # NULL /\ ~CurrentUnanswered /\ idx + 1 < Len(rounds)
          THEN /\ idx' = idx + 1
               /\ unlockedRoundIndex' = Some(rounds[idx + 2].roundIndex)
               /\ unlockedRoundIndex' # unlockedRoundIndex
          ELSE /\ idx' = idx
               /\ unlockedRoundIndex' = unlockedRoundIndex]_vars

\* next() has moved from the first to the second of three rounds numbered
\* with gaps.
C6_Witness ==
    /\ lastOp.op = "next"
    /\ Len(rounds) = 3
    /\ idx = 1
    /\ unlockedRoundIndex = Some(2)
    /\ rounds[1].roundIndex = 0

\* C7: with n >= 1 rounds loaded, 0 <= idx <= n-1 in every state; next() on
\* the answered last round leaves idx and unlockedRoundIndex unchanged and
\* starts a submission (submitting, one attempt request sent).
C7_IdxInRange ==
    [][/\ (puzzle' # NULL /\ Len(rounds') >= 1) => (0 <= idx' /\ idx' <= Len(rounds') - 1)
       /\ (/\ lastOp'.op = "next"
           /\ current # NULL /\ ~CurrentUnanswered
           /\ idx = Len(rounds) - 1)
          => /\ idx' = idx
             /\ unlockedRoundIndex' = unlockedRoundIndex
             /\ submitting'
             /\ Cardinality(Sent) = 1
             /\ \A c \in Sent : c.awaiting = "attempt"]_vars

\* next() on the answered last of three rounds has started a submission.
C7_Witness ==
    /\ lastOp.op = "next"
    /\ Len(rounds) = 3
    /\ idx = 2
    /\ submitting
    /\ \E c \in inflight : c.awaiting = "attempt"

\* Every round of a loaded, non-empty puzzle has a ledger entry.
LedgerComplete ==
    /\ puzzle # NULL
    /\ Len(rounds) >= 1
    /\ \A i \in 1..Len(rounds) : Lookup(answers, rounds[i].roundIndex) \in Choices

\* C8: submitAttempt sends an attempt request only if every round of the
\* loaded puzzle has a ledger entry and the round set is non-empty; otherwise
\* it sends nothing, does not enter Submitting and leaves the held
\* AttemptResult unchanged.
C8_SubmitNeedsCompleteLedger ==
    [][lastOp'.op = "submitAttempt"
       => /\ Sent # {} => LedgerComplete
          /\ ~LedgerComplete => /\ Sent = {}
                                /\ ~submitting'
                                /\ attempt' = attempt]_vars

\* submitAttempt was refused for a missing answer while a result was held.
C8_Witness ==
    /\ lastOp.op = "submitAttempt"
    /\ ~LedgerComplete
    /\ Len(rounds) >= 1
    /\ attempt # NULL
    /\ ~submitting
    /\ inflight = {}

\* C9: the answers mapping of every attempt request has exactly the loaded
\* puzzle's round indices (as strings) as its keys, one key per round, and
\* under each key the Choice the ledger holds for that round when the request
\* is built.
C9_PayloadKeys ==
    [][\A c \in Sent :
          c.awaiting = "attempt"
          => /\ DOMAIN c.body.answers
                    = {ToStr(rounds[i].roundIndex) : i \in 1..Len(rounds)}
             /\ Cardinality(DOMAIN c.body.answers) = Len(rounds)
             /\ \A i \in 1..Len(rounds) :
                   /\ c.body.answers[ToStr(rounds[i].roundIndex)]
                          = Lookup(answers, rounds[i].roundIndex)
                   /\ c.body.answers[ToStr(rounds[i].roundIndex)] \in Choices]_vars

\* A request for three rounds, answered differently, is in flight.
C9_Witness ==
    /\ lastOp.op = "next"
    /\ Len(rounds) = 3
    /\ \E c \in inflight :
          /\ c.awaiting = "attempt"
          /\ DOMAIN c.body.answers = {<<"0">>, <<"2">>, <<"4">>}
          /\ c.body.answers[<<"0">>] # c.body.answers[<<"2">>]

SentLeaderboard == {c \in Sent : c.awaiting = "leaderboard"}

\* C11: a leaderboard fetch is issued exactly once by each step that takes a
\* success (200) response of the attempt request, and by no other step: none
\* after a refused or failed attempt, none before the attempt's response has
\* arrived, and none while an attempt request is outstanding.
C11_LeaderboardOnlyAfterAccepted ==
    [][/\ IF lastOp'.op = "attemptOk"
          THEN Cardinality(SentLeaderboard) = 1
          ELSE SentLeaderboard = {}
       /\ \A c \in SentLeaderboard :
             \E b \in inflight : b.id = c.id /\ b.awaiting = "attempt"
       /\ \A c \in inflight' :
             c.awaiting = "leaderboard"
             => \A b \in inflight' : b.awaiting # "attempt"]_vars

\* The attempt was accepted and its leaderboard fetch is outstanding.
C11_Witness ==
    /\ lastOp.op = "attemptOk"
    /\ Accepted(attempt)
    /\ loadingLeaderboard
    /\ \E c \in inflight : c.awaiting = "leaderboard"

\* The steps in which the leaderboard fetch fails: a non-success status, or
\* a transport error or unparseable body (a throw).
LeaderboardFailures == {"leaderboardNotOk", "leaderboardThrow"}

\* C12: when the leaderboard fetch that follows an accepted attempt fails,
\* the held result stays as it was (accepted, same score).
C12_LeaderboardFailureKeepsResult ==
    [][(lastOp'.op \in LeaderboardFailures /\ Accepted(attempt))
       => attempt' = attempt]_vars

\* The steps in which the attempt request fails: a non-success status, or a
\* transport error or unparseable body (a throw).
AttemptFailures == {"attemptNotOk", "attemptThrow"}

\* C13: every non-success attempt response and every transport or parse
\* failure of the attempt request ends the submit rejected: no result is
\* held, an error message is set, the invocation is over (nothing of it is
\* outstanding, submitting is false) and no leaderboard fetch is issued.
C13_FailureIsRejected ==
    [][lastOp'.op \in AttemptFailures
       => /\ attempt' = NULL
          /\ err' # NULL
          /\ ~submitting'
          /\ Sent = {}
          /\ Cardinality(inflight') = Cardinality(inflight) - 1]_vars

\* A refused attempt has left its message and no result.
C13_Witness ==
    /\ lastOp.op = "attemptNotOk"
    /\ attempt = NULL
    /\ err = Some(<<"Incomplete", ": ", "missing rounds">>)
    /\ inflight = {}
    /\ LedgerComplete

\* The attempt requests sent by the step.
SentAttempt == {c \in Sent : c.awaiting = "attempt"}

\* C14: a failed submit is not retried: an attempt request is sent only by
\* the user's submit (next() on the last round), one per call, never by the
\* step that takes a response.  After a failure the session can submit
\* again: submitting is false, the ledger is as it was, the Next/Submit
\* button is enabled, and the next call validates again: it sends one new
\* request if the ledger is complete and none otherwise.
C14_NoRetryResubmittable ==
    [][/\ SentAttempt # {} => (lastOp'.op = "next" /\ Cardinality(SentAttempt) = 1)
       /\ lastOp'.op \in AttemptFailures
              => /\ ~submitting'
                 /\ answers' = answers
                 /\ current' # NULL => ~nextDisabled'
       /\ (lastOp.op \in AttemptFailures /\ lastOp'.op = "next")
              => IF LedgerComplete /\ isLast
                 THEN Cardinality(SentAttempt) = 1 /\ submitting'
                 ELSE SentAttempt = {}]_vars

\* An attempt has failed and the session is ready to submit the same
\* complete ledger again.
C14_Witness ==
    /\ lastOp.op \in AttemptFailures
    /\ ~submitting
    /\ inflight = {}
    /\ LedgerComplete
    /\ isLast
    /\ ~nextDisabled

\* What taking the accepted body json as the response of the outstanding
\* attempt request c must do, whatever its alreadySubmitted flag: hold json,
\* set no error, lock the session, issue the one leaderboard fetch of the
\* invocation, and leave the rest of the state as it is.
AcceptedOutcome(c, json) ==
    /\ attemptOk(c, json)
    /\ attempt' = Some(json)
    /\ err' = err
    /\ isCurrentLocked'
    /\ nextDisabled'
    /\ loadingLeaderboard'
    /\ inflight' = (inflight \ {c}) \cup {[c EXCEPT !.awaiting = "leaderboard"]}
    /\ UNCHANGED <<puzzle, answers, idx, unlockedRoundIndex, submitting,
                   leaderboard, loadsInFlight>>

\* C15: an accepted response with alreadySubmitted = true is handled exactly
\* like one with alreadySubmitted = false: from every state with an attempt
\* request outstanding, either response leads to the state AcceptedOutcome
\* describes, so the two resulting states differ only in the flag held.
C15_AlreadySubmittedSameAsFresh ==
    \A c \in inflight :
        c.awaiting = "attempt"
        => \A json \in AcceptedBodies :
              /\ ENABLED AcceptedOutcome(c, json)
              /\ ENABLED AcceptedOutcome(c, [json EXCEPT !.alreadySubmitted = ~@])

\* A response that reports a repeated submission was taken: the result is
\* held with its score, no error is set and the leaderboard is being fetched.
C15_Witness ==
    /\ lastOp.op = "attemptOk"
    /\ Accepted(attempt)
    /\ Get(attempt).alreadySubmitted
    /\ Get(attempt).score = 1
    /\ err = NULL
    /\ isCurrentLocked
    /\ \E c \in inflight : c.awaiting = "leaderboard"

\* C16: every success response of the attempt request finalizes the session:
\* once its body is held as the result, setChoice cannot write (the choice
\* buttons are disabled) and no further submit can be started (the
\* Next/Submit button is disabled), whatever the body carries.
C16_SuccessFinalizes ==
    attempt # NULL => (choiceDisabled /\ nextDisabled)

\* C17: one logical submission per session.  In the Back/Next revision, once
\* an accepted result is held, no step other than a load's sends another
\* attempt request, clears or replaces the held result, or changes the
\* ledger.
C17_OneSubmissionPerSession ==
    [][(Accepted(attempt) /\ lastOp'.op \notin LoadOps)
       => /\ SentAttempt = {}
          /\ attempt' = attempt
          /\ answers' = answers]_vars

\* The invocation c was started in an earlier session: the puzzle it was
\* built from has been replaced or dropped by a load since.  (While c is
\* outstanding submitting is true and the ledger cannot change, so within
\* one session the body of c is the payload of the current state.)
Stale(c) == puzzle = NULL \/ c.body # Stringify(Payload)

\* C18: the response of an attempt request or leaderboard fetch that was
\* sent before a load reset the session is discarded: the step that takes it
\* sets none of attempt, leaderboard, err and submitting.
C18_StaleResponseDiscarded ==
    [][\A c \in inflight :
          (Stale(c) /\ c \notin inflight')
          => /\ attempt' = attempt
             /\ leaderboard' = leaderboard
             /\ err' = err
             /\ submitting' = submitting]_vars

\* C19: until a load has completed successfully (no puzzle is held), next()
\* and submitAttempt() are rejected: they change no session state and send no
\* request.
C19_NoAdvanceBeforeLoad ==
    [][(lastOp'.op \in {"next", "submitAttempt"} /\ puzzle = NULL)
       => /\ Sent = {}
          /\ UNCHANGED <<puzzle, err, answers, idx, unlockedRoundIndex,
                         submitting, attempt, leaderboard, loadingLeaderboard,
                         loadsInFlight, inflight>>]_vars

\* submitAttempt was called while the first load was still outstanding.
C19_Witness ==
    /\ lastOp.op = "submitAttempt"
    /\ puzzle = NULL
    /\ loadsInFlight = 1
    /\ unlockedRoundIndex = NULL
    /\ inflight = {}

\* C20: after every successful load the session is fully reset: the ledger
\* is empty, idx is 0, unlockedRoundIndex is the roundIndex of the first
\* round of the sorted sequence (where there is one), and no result or
\* leaderboard of an earlier session is held.
C20_LoadResetsSession ==
    lastOp.op = "loadOk"
    => /\ answers = EmptyObject
       /\ idx = 0
       /\ Len(rounds) >= 1 => unlockedRoundIndex = Some(rounds[1].roundIndex)
       /\ attempt = NULL
       /\ leaderboard = NULL

\* The sequence s is ascending by roundIndex.
Ascending(s) == \A i \in 1..(Len(s) - 1) : s[i].roundIndex <= s[i + 1].roundIndex

\* The sequences s and t hold the same rounds, each as often.
IsPermutation(s, t) ==
    /\ Len(s) = Len(t)
    /\ \A i \in 1..Len(s) :
          Cardinality({j \in 1..Len(s) : s[j] = s[i]})
              = Cardinality({j \in 1..Len(t) : t[j] = s[i]})

\* Installing the puzzle response json leaves its rounds ascending and
\* permuted, under its own date.
InstalledSorted(json) ==
    /\ loadOk(json)
    /\ puzzle' # NULL
    /\ Get(puzzle').date = json.date
    /\ Ascending(rounds')
    /\ IsPermutation(rounds', json.rounds)

\* C21: whatever order the server returns the rounds in, the installed
\* sequence is ascending by roundIndex and a permutation of the received
\* rounds; so in every state the round at position idx has exactly idx
\* rounds with a smaller index before it.
C21_RoundsSorted ==
    /\ loadsInFlight > 0 => \A json \in PuzzleBodies : ENABLED InstalledSorted(json)
    /\ Ascending(rounds)
    /\ current # NULL
          => Cardinality({i \in 1..Len(rounds) :
                             rounds[i].roundIndex < Get(current).roundIndex}) = idx

\* Three rounds numbered with gaps were installed and the view has moved to
\* the third smallest.
C21_Witness ==
    /\ Len(rounds) = 3
    /\ rounds[1].roundIndex = 0
    /\ rounds[3].roundIndex = 4
    /\ idx = 2
    /\ Get(current).roundIndex = 4

\* C22: a puzzle response with an empty round sequence is treated as a load
\* error: no puzzle with no rounds is ever installed, so idx and
\* unlockedRoundIndex never refer to a round that does not exist.
C22_EmptyRoundsIsLoadError ==
    puzzle # NULL
    => /\ Len(rounds) >= 1
       /\ current # NULL
       /\ unlockedRoundIndex # NULL
          => \E i \in 1..Len(rounds) : unlockedRoundIndex = Some(rounds[i].roundIndex)

\* The property keys of the rounds of the loaded puzzle.
LoadedKeys == {PropKey(rounds[i].roundIndex) : i \in 1..Len(rounds)}

\* C23: every key of the answers ledger is the roundIndex of a round of the
\* puzzle currently loaded; the ledger is empty whenever no puzzle is loaded.
C23_LedgerKeysAreRounds ==
    DOMAIN answers \subseteq LoadedKeys

\* C24: setChoice(roundIndex, choice) checks its own argument: called for any
\* round other than the one that is editable (the displayed round, when
\* Editable), it writes nothing, whatever the buttons show.
C24_SetChoiceChecksItsArgument ==
    [][(/\ lastOp'.op = "setChoice"
        /\ ~(Editable /\ lastOp'.round = Get(current).roundIndex))
       => answers' = answers]_vars

\* C25: prev() sets idx to max(idx - 1, 0) and leaves the ledger, the held
\* result, the leaderboard and the puzzle unchanged; the Back button takes a
\* click after an accepted result too (once the submission has ended and
\* the view is past the first round).
C25_PrevFrame ==
    [][/\ lastOp'.op = "prev"
          => /\ idx' = (IF idx - 1 > 0 THEN idx - 1 ELSE 0)
             /\ UNCHANGED <<answers, attempt, leaderboard, puzzle>>
       /\ (Accepted(attempt) /\ idx > 0 /\ ~submitting) => ENABLED ClickBack]_vars

\* prev() ran while an accepted result was held, and the result, the
\* complete ledger and the leaderboard are still there.
C25_Witness ==
    /\ lastOp.op = "prev"
    /\ Accepted(attempt)
    /\ leaderboard # NULL
    /\ LedgerComplete
    /\ Len(rounds) = 2
    /\ idx = 0

\* C26: against the idempotent scorer, a submit call that the scorer answers
\* as a repeated submission (an attempt for its date was accepted before)
\* ends with that answer held: accepted, alreadySubmitted = true, and the
\* score stored for the date by the first accepted attempt.
C26_RepeatedSubmitSameScore ==
    [][\A c \in inflight :
          (/\ c.awaiting = "leaderboard"
           /\ c \notin inflight'
           /\ c.response.alreadySubmitted)
          => /\ attempt' = Some(c.response)
             /\ Accepted(attempt')
             /\ Get(attempt').score = scorer[c.body.puzzleDate]]_vars

\* C27: ensureUserId creates a token only when none is stored and never
\* overwrites a stored one: the stored token, once there, never changes;
\* every session's userId is the stored token; and every attempt request
\* carries it in X-User-Id.
C27_OneTokenForAllSessions ==
    [][/\ localStorage # NULL => localStorage' = localStorage
       /\ lastOp'.op \in {"mountCreated", "mountExisting"}
             => /\ localStorage' # NULL
                /\ userId' = localStorage'
                /\ (lastOp'.op = "mountCreated") = (localStorage = NULL)
       /\ \A c \in SentAttempt : c.xUserId = localStorage']_vars

\* A later session has started and got the token stored by an earlier one.
C27_Witness ==
    /\ lastOp.op = "mountExisting"
    /\ userId = localStorage
    /\ userId # NULL

\* Every round of the loaded puzzle has a ledger entry.
PageComplete == \A i \in 1..Len(rounds) : Has(answers, rounds[i].roundIndex)

\* C28: in the one-page revision the count test of onSubmit agrees with
\* "every round of the puzzle has a ledger entry" whenever a puzzle is
\* loaded, submitted is true of a loaded puzzle only with a complete
\* ledger, a submit with a complete ledger sets submitted, and a submit with
\* an incomplete ledger leaves submitted false and writes an error.
C28_CountTestIsCompleteness ==
    /\ [](puzzle # NULL => ((answeredCount = totalRounds) <=> PageComplete))
    /\ []((submitted /\ puzzle # NULL) => PageComplete)
    /\ [][lastOp'.op = "onSubmit"
             => IF PageComplete
                THEN submitted' /\ err' = NULL
                ELSE ~submitted' /\ err' # NULL /\ answers' = answers]_vars

\* A submit taken with every round answered, rounds received out of order.
C28_Witness ==
    /\ lastOp.op = "onSubmit"
    /\ submitted
    /\ Len(rounds) = 3
    /\ rounds[1].roundIndex > rounds[2].roundIndex

\* C29: in the Back/Next revision the ledger does not change between the
\* building of an attempt request and the use of its response: while the
\* accepted result of a request is held (its leaderboard fetch is still
\* outstanding, so the request body is known), the payload the ledger would
\* give now is the body that was sent.
C29_HeldResultMatchesLedger ==
    \A c \in inflight :
        (c.awaiting = "leaderboard" /\ Accepted(attempt))
        => (puzzle # NULL /\ c.body = Stringify(Payload))

\* C30: every started submit terminates.  While submitting is true a request
\* of the call is outstanding, the leaderboard indicator is on only while the
\* leaderboard fetch is outstanding, and, every outstanding request being
\* answered eventually, a session that is submitting reaches a state with
\* submitting = false and loadingLeaderboard = false.
C30_SubmitTerminates ==
    /\ [](submitting => inflight # {})
    /\ [](loadingLeaderboard => \E c \in inflight : c.awaiting = "leaderboard")
    /\ (submitting ~> (~submitting /\ ~loadingLeaderboard))

\* A submit has ended on the leaderboard-failure path.
C30_Witness ==
    /\ lastOp.op = "leaderboardThrow"
    /\ ~submitting
    /\ ~loadingLeaderboard
    /\ inflight = {}

\* C31: no stuck state.  With a puzzle of at least one round loaded, no
\* submission in flight and no accepted result held, a round is displayed
\* and it is editable or already answered, so that next() can get past it;
\* also after two next() calls that ran against one rendered snapshot.
C31_NoStuckState ==
    (/\ puzzle # NULL
     /\ Len(rounds) >= 1
     /\ ~submitting
     /\ inflight = {}
     /\ ~Accepted(attempt))
    => /\ current # NULL
       /\ ~isCurrentLocked \/ ~CurrentUnanswered

\* C32: a leaderboard is held only together with an accepted result: in
\* every state of the forward-only revision, leaderboard non-null implies
\* that attempt holds an accepted body.
C32_LeaderboardImpliesAccepted ==
    leaderboard # NULL => Accepted(attempt)

\* C33: frame of setChoice.  In the forward-only revision a setChoice that
\* is not refused writes the given choice to the ledger entry of the
\* displayed round and nothing else: every other entry, idx,
\* unlockedRoundIndex, attempt, leaderboard and puzzle are unchanged and no
\* request is sent.
C33_SetChoiceFrame ==
    [][(lastOp'.op = "setChoice" /\ ~isCurrentLocked)
       => /\ current # NULL
          /\ lastOp'.round = Get(current).roundIndex
          /\ DOMAIN answers' = DOMAIN answers \cup {PropKey(lastOp'.round)}
          /\ answers'[PropKey(lastOp'.round)] = lastOp'.choice
          /\ \A k \in DOMAIN answers :
                k # PropKey(lastOp'.round) => answers'[k] = answers[k]
          /\ UNCHANGED <<idx, unlockedRoundIndex, attempt, leaderboard, puzzle,
                         submitting, loadingLeaderboard>>
          /\ Sent = {}
          /\ inflight' = inflight]_vars

\* A choice was changed on the last of three rounds while the two earlier
\* entries and a held, not accepted, response body were in place.
C33_Witness ==
    /\ lastOp.op = "setChoice"
    /\ idx = 2
    /\ attempt # NULL
    /\ Cardinality(DOMAIN answers) = 3
    /\ Lookup(answers, rounds[1].roundIndex) # lastOp.choice

\* C34: after a failed load, by a non-success status or by a thrown fetch or
\* parse, no puzzle is installed and an error is set, also when an earlier
\* load had succeeded.
C34_FailedLoadLeavesNoPuzzle ==
    lastOp.op \in {"loadNotOk", "loadThrow"} => (puzzle = NULL /\ err # NULL)

====
